---- MODULE Spec2Model ----
(***************************************************************************)
(* TBflix: the data-fetching core of src/src/App.jsx.                      *)
(*                                                                         *)
(* The App component keeps searchTerm, movieList, errorMessage and         *)
(* isLoading in React state.  An effect runs fetchMovies(searchTerm) on    *)
(* mount and after every change of searchTerm; fetchMovies is an async     *)
(* function that suspends inside fetchWithRetry at fetch(), at             *)
(* response.json() and at the retry timer, so several invocations can be   *)
(* in flight and interleave at those points.                               *)
(*                                                                         *)
(* Spec      : the component (mount, typing in the search box, the         *)
(*             transport settling requests, timers firing).                *)
(* SpecRetry : one direct call fetchWithRetry(url, options, retries,       *)
(*             delay) with the arguments drawn from bounded sets.          *)
(***************************************************************************)
EXTENDS Integers, Sequences, FiniteSets, TLC

VARIABLES
    apiKey,        \* whether import.meta.env.VITE_TMDB_API_KEY is truthy
    mounted,       \* whether the mount effect has run
    searchTerm,    \* useState('')
    movieList,     \* useState([])
    errorMessage,  \* useState('')
    isLoading,     \* useState(false)
    nInv,          \* number of fetchMovies invocations started so far
    inv,           \* the fetchMovies invocations, by order of start
    lastReturn,    \* the invocation that returned in the last step, if one did
    call,          \* SpecRetry: the activation of the direct fetchWithRetry call
    callLog        \* SpecRetry: what each attempt of that call ended with

vars == <<apiKey, mounted, searchTerm, movieList, errorMessage, isLoading,
          nInv, inv, lastReturn, call, callLog>>

appVars == <<apiKey, mounted, searchTerm, movieList, errorMessage, isLoading,
             nInv, inv, lastReturn>>

-----------------------------------------------------------------------------
(* Bounds of the model *)

MaxInv == 2        \* fetchMovies invocations started in one run
MaxPageLen == 2    \* records in one page of the provider's answer
MaxRetries == 3    \* largest `retries` argument of the direct call

(* Program constants *)

DefaultRetries == 3
DefaultDelay == 1000

ImagePrefix == "https://image.tmdb.org/t/p/w500"
Placeholder == "./No-Poster.png"

MsgMissing == "API key is missing. Please check your configuration."
MsgNoSearch == "No movies found for your search"
MsgNoBrowse == "No movies available"
MsgGeneric == "Error fetching movies. Please try again later."
MsgUnauthorized == "Invalid API key. Please check your TMDB API configuration."
MsgRateLimited == "Rate limit exceeded. Please try again later."

-----------------------------------------------------------------------------
(* The environment: what the user types and what the provider answers *)

Queries == {"", "batman"}

Delays == {DefaultDelay, 250}

\* The provider's records in its own order (by popularity, not by id):
\* poster_path empty, present, and absent.
Ranking ==
    << [id |-> 3, title |-> "Casablanca", poster_path |-> ""],
       [id |-> 1, title |-> "Alien", poster_path |-> "/abc.jpg"],
       [id |-> 2, title |-> "Brazil"] >>

\* One page of results: up to MaxPageLen consecutive records of the ranking.
Pages ==
    UNION { { SubSeq(Ranking, a, a + n - 1) : a \in 1..(Len(Ranking) - n + 1) } :
            n \in 0..MaxPageLen }

\* Parsed JSON bodies: an object with a results array, an object without
\* the field, or the JSON value null.
NullBody == [kind |-> "null"]
UndefinedValue == [kind |-> "undefined"]
Bodies ==
    { [kind |-> "object", results |-> p] : p \in Pages }
      \cup { [kind |-> "object"], NullBody }

\* Non-success HTTP statuses the provider answers with.
BadStatuses == {401, 429, 500}

\* Texts of the failures the transport itself raises: fetch() rejecting, and
\* response.json() rejecting with a SyntaxError that quotes the body.
NetworkMessages == {"Failed to fetch"}
ParseMessages ==
    { "Unexpected token '<'",
      "Unexpected token 'x', \"401x\" is not valid JSON",
      "Unexpected token 'x', \"429x\" is not valid JSON",
      "Unexpected token 'x', \"429401x\" is not valid JSON" }

\* An error object: its name, its message, and the loop index of the attempt
\* that raised it (its identity); -1 when raised outside fetchWithRetry.
NoError == [name |-> "none"]
MkError(name, message, attempt) ==
    [name |-> name, message |-> message, attempt |-> attempt]

-----------------------------------------------------------------------------
(* Pure helpers *)

\* JavaScript truthiness of a string.
Truthy(s) == s # ""

\* String.prototype.includes
Includes(s, pat) ==
    \E k \in 0..(Len(s) - Len(pat)) : SubSeq(s, k + 1, k + Len(pat)) = pat

-----------------------------------------------------------------------------
(* fetchWithRetry (App.jsx 24-37) as a resumable activation.                 *)
(* pc: "fetch" awaiting fetch(), "json" awaiting response.json(), "sleep"   *)
(* awaiting the retry timer, "returned" / "thrown" once it has completed.   *)

NoCall == [pc |-> "none"]

\* What fetch() settles with, and what response.json() settles with.
FetchOutcomes ==
    { [type |-> "response", ok |-> TRUE, status |-> 200] }
      \cup { [type |-> "response", ok |-> FALSE, status |-> s] : s \in BadStatuses }
      \cup { [type |-> "rejected", message |-> m] : m \in NetworkMessages }

JsonOutcomes ==
    { [type |-> "parsed", body |-> b] : b \in Bodies }
      \cup { [type |-> "rejected", message |-> m] : m \in ParseMessages }

\* `HTTP error! status: ${response.status}`
HttpErrorMessage(status) == "HTTP error! status: " \o ToString(status)

\* for (...; i < retries; ...): another attempt is issued, or the loop ends
\* and the function returns undefined.
LoopTest(f) ==
    IF f.i < f.retries
    THEN [f EXCEPT !.pc = "fetch", !.attempts = @ + 1]
    ELSE [f EXCEPT !.pc = "returned", !.result = UndefinedValue]

\* The call itself: let i = 0 and the first loop test.
StartCall(retries, delay) ==
    LoopTest([retries |-> retries, delay |-> delay, i |-> 0, pc |-> "start",
              attempts |-> 0, delays |-> 0, waited |-> 0,
              result |-> UndefinedValue, error |-> NoError])

\* Mutant of LastAttempt: the first failure is raised to the caller.
LastAttempt_First(i, retries) == i = 0

\* Mutant of LastAttempt: the test is off by one.
LastAttempt_OffByOne(i, retries) == i = retries

\* if (i === retries - 1)
LastAttempt(i, retries) == i = retries - 1

\* Mutant of Rethrown: the failure is wrapped in a new Error.
Rethrown_Wrapped(error) ==
    [error EXCEPT !.name = "Error", !.message = "Request failed: " \o @]

\* What the catch clause raises to the caller on the last attempt.
Rethrown(error) == error

\* catch (error): rethrow on the last attempt, else arm the timer.
Catch(f, error) ==
    IF LastAttempt(f.i, f.retries)
    THEN [f EXCEPT !.pc = "thrown", !.error = Rethrown(error)]
    ELSE [f EXCEPT !.pc = "sleep", !.delays = @ + 1]

\* The failure attempt i raises when fetch() settles with r, if any:
\* the rejection itself, or new Error(`HTTP error! ...`) when !response.ok.
FetchError(i, r) ==
    IF r.type = "rejected" THEN MkError("TypeError", r.message, i)
    ELSE IF ~r.ok THEN MkError("Error", HttpErrorMessage(r.status), i)
    ELSE NoError

\* The failure attempt i raises when response.json() settles with r, if any.
JsonError(i, r) ==
    IF r.type = "rejected" THEN MkError("SyntaxError", r.message, i)
    ELSE NoError

\* await fetch(url, options) settles.
OnFetchSettled(f, r) ==
    IF FetchError(f.i, r) # NoError
    THEN Catch(f, FetchError(f.i, r))
    ELSE [f EXCEPT !.pc = "json"]

\* Mutant of OnJsonSettled: the parsed body is kept but not returned, and the
\* loop goes on to its next iteration.
OnJsonSettled_NoReturn(f, r) ==
    IF JsonError(f.i, r) # NoError
    THEN Catch(f, JsonError(f.i, r))
    ELSE LoopTest([f EXCEPT !.i = @ + 1, !.result = r.body])

\* await response.json() settles.
OnJsonSettled(f, r) ==
    IF JsonError(f.i, r) # NoError
    THEN Catch(f, JsonError(f.i, r))
    ELSE [f EXCEPT !.pc = "returned", !.result = r.body]

\* Mutant of OnTimer: the promise of the delay is never resolved.
OnTimer_NeverResolves(f) == f

\* The timer of setTimeout(resolve, delay) fires: i++ and the loop test.
OnTimer(f) ==
    LoopTest([f EXCEPT !.i = @ + 1, !.waited = @ + f.delay])

-----------------------------------------------------------------------------
(* fetchMovies (App.jsx 39-90) *)

\* Mutant of KeyMissing: the credential check is skipped.
KeyMissing_Skipped == FALSE

\* if (!API_KEY)
KeyMissing == ~apiKey

\* Mutant of PagesToFetch: two pages whatever the query.
PagesToFetch_AlwaysTwo(query) == 2

\* const pagesToFetch = query ? 1 : 2
PagesToFetch(query) == IF Truthy(query) THEN 1 ELSE 2

\* Mutant of EmptyPage: the length of the results is not looked at.
EmptyPage_OnlyMissing(data) == "results" \notin DOMAIN data

\* !data.results || data.results.length === 0
EmptyPage(data) ==
    \/ "results" \notin DOMAIN data
    \/ Len(data.results) = 0

\* Mutant of NoResultsMessage: the two messages swapped.
NoResultsMessage_Swapped(query) == IF Truthy(query) THEN MsgNoBrowse ELSE MsgNoSearch

\* query ? 'No movies found for your search' : 'No movies available'
NoResultsMessage(query) == IF Truthy(query) THEN MsgNoSearch ELSE MsgNoBrowse

\* Mutant of Transform: a poster_path that is present but empty is prefixed.
Transform_EmptyIsPath(movie) ==
    [fld \in DOMAIN movie \cup {"poster_path"} |->
        IF fld = "poster_path"
        THEN IF "poster_path" \in DOMAIN movie
             THEN ImagePrefix \o movie.poster_path
             ELSE Placeholder
        ELSE movie[fld]]

\* movie => ({...movie, poster_path: movie.poster_path ? prefix + it : placeholder})
Transform(movie) ==
    [fld \in DOMAIN movie \cup {"poster_path"} |->
        IF fld = "poster_path"
        THEN IF "poster_path" \in DOMAIN movie /\ Truthy(movie.poster_path)
             THEN ImagePrefix \o movie.poster_path
             ELSE Placeholder
        ELSE movie[fld]]

\* data.results.map(...)
TransformAll(results) == [j \in 1..Len(results) |-> Transform(results[j])]

\* Mutant of Accumulate: the new page is put before the pages gathered so far.
Accumulate_Prepend(allResults, results) == TransformAll(results) \o allResults

\* allResults = [...allResults, ...data.results.map(...)]
Accumulate(allResults, results) == allResults \o TransformAll(results)

\* Mutant of Classify: the "429" test made before the "401" test.
Classify_RateLimitFirst(message) ==
    IF Includes(message, "429") THEN MsgRateLimited
    ELSE IF Includes(message, "401") THEN MsgUnauthorized
    ELSE MsgGeneric

\* The message chosen in the catch clause (77-83).
Classify(message) ==
    IF Includes(message, "401") THEN MsgUnauthorized
    ELSE IF Includes(message, "429") THEN MsgRateLimited
    ELSE MsgGeneric

\* Mutant of CaughtState: the records gathered so far are committed.
CaughtState_KeepPartial(allResults, error) ==
    [errorMessage |-> Classify(error.message), movieList |-> allResults]

\* What the catch clause writes (85-86).
CaughtState(allResults, error) ==
    [errorMessage |-> Classify(error.message), movieList |-> <<>>]

\* Mutant of NoResultsState: the list on display is left as it is.
NoResultsState_KeepList(query) ==
    [errorMessage |-> NoResultsMessage(query), movieList |-> movieList]

\* What the first-page "no results" branch writes (61-62).
NoResultsState(query) ==
    [errorMessage |-> NoResultsMessage(query), movieList |-> <<>>]

\* An invocation: its arguments and locals (query, page, allResults, the
\* fetchWithRetry activation it awaits), and its history: the pages it has
\* requested, the bodies it has received, and whether another invocation has
\* been in flight at any moment of its run.
Idle ==
    [st |-> "idle", query |-> "", page |-> 0, allResults |-> <<>>,
     call |-> NoCall, requested |-> {}, got |-> <<>>, outcome |-> "",
     overlapped |-> FALSE]

\* An invocation that has returned keeps its query, its outcome and the
\* pages it requested.
Finished(r, outcome) ==
    [r EXCEPT !.st = "done", !.page = 0, !.allResults = <<>>, !.call = NoCall,
              !.got = <<>>, !.outcome = outcome, !.overlapped = FALSE]

\* The record of a return: what the invocation had requested and received,
\* and the failure its catch clause caught, if any.
NoReturn == [k |-> 0]
Return(k, r, outcome, got, caught) ==
    [k |-> k, query |-> r.query, outcome |-> outcome, got |-> got,
     caught |-> caught, requested |-> r.requested,
     overlapped |-> r.overlapped]

\* The invocations that have started and not yet returned.
InFlight == { j \in DOMAIN inv : inv[j].st = "running" }

\* data.results read on a value that is not an object (null, undefined).
ResultsTypeError(data) ==
    MkError("TypeError",
            "Cannot read properties of " \o data.kind \o " (reading 'results')",
            -1)

\* Mutant of BeginFetchMovies: starting an invocation cancels the ones in
\* flight.
BeginFetchMovies_Cancelling(k, query) ==
    IF KeyMissing
    THEN /\ errorMessage' = MsgMissing
         /\ isLoading' = FALSE
         /\ inv' = [inv EXCEPT ![k] =
                Finished([Idle EXCEPT !.query = query], "ConfigurationMissing")]
         /\ lastReturn' = Return(k, [Idle EXCEPT !.query = query],
                                 "ConfigurationMissing", <<>>, NoError)
         /\ UNCHANGED movieList
    ELSE LET f == StartCall(DefaultRetries, DefaultDelay) IN
         /\ isLoading' = TRUE
         /\ errorMessage' = ""
         /\ inv' = [j \in DOMAIN inv |->
                IF j = k
                THEN [Idle EXCEPT !.st = "running", !.query = query, !.page = 1,
                                  !.call = f, !.requested = {1}]
                ELSE IF j \in InFlight
                     THEN Finished(inv[j], "Cancelled")
                     ELSE inv[j]]
         /\ lastReturn' = NoReturn
         /\ UNCHANGED movieList

\* Lines 40-47 and the first fetchWithRetry call: invocation k starts.
BeginFetchMovies(k, query) ==
    IF KeyMissing
    THEN /\ errorMessage' = MsgMissing
         /\ isLoading' = FALSE
         /\ inv' = [inv EXCEPT ![k] =
                Finished([Idle EXCEPT !.query = query], "ConfigurationMissing")]
         /\ lastReturn' = Return(k, [Idle EXCEPT !.query = query],
                                 "ConfigurationMissing", <<>>, NoError)
         /\ UNCHANGED movieList
    ELSE LET f == StartCall(DefaultRetries, DefaultDelay) IN
         /\ isLoading' = TRUE
         /\ errorMessage' = ""
         /\ inv' = [j \in DOMAIN inv |->
                IF j = k
                THEN [Idle EXCEPT !.st = "running", !.query = query, !.page = 1,
                                  !.call = f, !.requested = {1},
                                  !.overlapped = InFlight # {}]
                ELSE IF j \in InFlight
                     THEN [inv[j] EXCEPT !.overlapped = TRUE]
                     ELSE inv[j]]
         /\ lastReturn' = NoReturn
         /\ UNCHANGED movieList

\* Mutant of OnCatch: the finally clause is missing.
OnCatch_NoFinally(k, error, got) ==
    LET r == inv[k]
        s == CaughtState(r.allResults, error)
    IN  /\ errorMessage' = s.errorMessage
        /\ movieList' = s.movieList
        /\ inv' = [inv EXCEPT ![k] = Finished(r, "Failure")]
        /\ lastReturn' = Return(k, r, "Failure", got, error)
        /\ UNCHANGED isLoading

\* Lines 75-89: the catch clause and the finally clause.
OnCatch(k, error, got) ==
    LET r == inv[k]
        s == CaughtState(r.allResults, error)
    IN  /\ errorMessage' = s.errorMessage
        /\ movieList' = s.movieList
        /\ isLoading' = FALSE
        /\ inv' = [inv EXCEPT ![k] = Finished(r, "Failure")]
        /\ lastReturn' = Return(k, r, "Failure", got, error)

\* Lines 57-74 and 87-89: fetchWithRetry returned data for the current page.
OnData(k, data) ==
    LET r == inv[k]
        got == Append(r.got, data)
    IN  IF data.kind # "object"
        THEN OnCatch(k, ResultsTypeError(data), got)
        ELSE IF EmptyPage(data)
        THEN IF r.page = 1
             THEN LET s == NoResultsState(r.query) IN
                  /\ errorMessage' = s.errorMessage
                  /\ movieList' = s.movieList
                  /\ isLoading' = FALSE
                  /\ inv' = [inv EXCEPT ![k] = Finished(r, "NoResults")]
                  /\ lastReturn' = Return(k, r, "NoResults", got, NoError)
                       ELSE /\ movieList' = r.allResults
                  /\ isLoading' = FALSE
                  /\ inv' = [inv EXCEPT ![k] = Finished(r, "Success")]
                  /\ lastReturn' = Return(k, r, "Success", got, NoError)
                  /\ UNCHANGED errorMessage
        ELSE LET all == Accumulate(r.allResults, data.results) IN
             IF r.page + 1 <= PagesToFetch(r.query)
             THEN LET f == StartCall(DefaultRetries, DefaultDelay) IN
                  /\ inv' = [inv EXCEPT ![k] =
                         [r EXCEPT !.page = r.page + 1, !.allResults = all,
                                   !.call = f, !.got = got,
                                   !.requested = @ \cup {r.page + 1}]]
                  /\ lastReturn' = NoReturn
                  /\ UNCHANGED <<movieList, errorMessage, isLoading>>
             ELSE /\ movieList' = all
                  /\ isLoading' = FALSE
                  /\ inv' = [inv EXCEPT ![k] = Finished(r, "Success")]
                  /\ lastReturn' = Return(k, r, "Success", got, NoError)
                  /\ UNCHANGED errorMessage

\* The activation of invocation k moved to f: fetchMovies stays suspended in
\* `await fetchWithRetry(...)`, or resumes with the value or the failure.
Resume(k, f) ==
    IF f.pc = "returned" THEN OnData(k, f.result)
    ELSE IF f.pc = "thrown" THEN OnCatch(k, f.error, inv[k].got)
    ELSE /\ inv' = [inv EXCEPT ![k].call = f]
         /\ lastReturn' = NoReturn
         /\ UNCHANGED <<movieList, errorMessage, isLoading>>

-----------------------------------------------------------------------------
(* The component *)

Invs == 1..MaxInv

Init ==
    /\ apiKey \in BOOLEAN
    /\ mounted = FALSE
    /\ searchTerm = ""
    /\ movieList = <<>>
    /\ errorMessage = ""
    /\ isLoading = FALSE
    /\ nInv = 0
    /\ inv = [k \in Invs |-> Idle]
    /\ lastReturn = NoReturn
    /\ call = NoCall
    /\ callLog = <<>>

\* useEffect(() => { fetchMovies(searchTerm) }, [searchTerm]) on mount.
Mount ==
    /\ ~mounted
    /\ nInv < MaxInv
    /\ mounted' = TRUE
    /\ nInv' = nInv + 1
    /\ BeginFetchMovies(nInv + 1, searchTerm)
    /\ UNCHANGED <<apiKey, searchTerm, call, callLog>>

\* The search box calls setSearchTerm(q); the effect runs for the new term.
SetSearchTerm(q) ==
    /\ mounted
    /\ q # searchTerm
    /\ nInv < MaxInv
    /\ searchTerm' = q
    /\ nInv' = nInv + 1
    /\ BeginFetchMovies(nInv + 1, q)
    /\ UNCHANGED <<apiKey, mounted, call, callLog>>

\* The transport settles the outstanding fetch() of invocation k.
FetchSettles(k) ==
    /\ inv[k].st = "running"
    /\ inv[k].call.pc = "fetch"
    /\ \E r \in FetchOutcomes : Resume(k, OnFetchSettled(inv[k].call, r))
    /\ UNCHANGED <<apiKey, mounted, searchTerm, nInv, call, callLog>>

\* The body of the response of invocation k has been read and parsed.
JsonSettles(k) ==
    /\ inv[k].st = "running"
    /\ inv[k].call.pc = "json"
    /\ \E r \in JsonOutcomes : Resume(k, OnJsonSettled(inv[k].call, r))
    /\ UNCHANGED <<apiKey, mounted, searchTerm, nInv, call, callLog>>

\* The retry timer of invocation k fires.
TimerFires(k) ==
    /\ inv[k].st = "running"
    /\ inv[k].call.pc = "sleep"
    /\ Resume(k, OnTimer(inv[k].call))
    /\ UNCHANGED <<apiKey, mounted, searchTerm, nInv, call, callLog>>

Next ==
    \/ Mount
    \/ \E q \in Queries : SetSearchTerm(q)
    \/ \E k \in Invs : FetchSettles(k)
    \/ \E k \in Invs : JsonSettles(k)
    \/ \E k \in Invs : TimerFires(k)

Spec == Init /\ [][Next]_vars

\* Every HTTP attempt eventually resolves or rejects, every body is eventually
\* read, and every delay eventually elapses.
Fairness ==
    \A k \in Invs :
        /\ WF_vars(FetchSettles(k))
        /\ WF_vars(JsonSettles(k))
        /\ WF_vars(TimerFires(k))

SpecLive == Init /\ [][Next]_vars /\ Fairness

-----------------------------------------------------------------------------
(* A direct call of fetchWithRetry, outside the component *)

RetriesArgs == 1..MaxRetries

\* What an attempt ended with: the failure it raised or the body it parsed.
Failed(error) == [ok |-> FALSE, error |-> error]
Parsed(body) == [ok |-> TRUE, body |-> body]

InitRetry ==
    /\ apiKey = TRUE
    /\ mounted = FALSE
    /\ searchTerm = ""
    /\ movieList = <<>>
    /\ errorMessage = ""
    /\ isLoading = FALSE
    /\ nInv = 0
    /\ inv = [k \in Invs |-> Idle]
    /\ lastReturn = NoReturn
    /\ call = NoCall
    /\ callLog = <<>>

\* fetchWithRetry(url, options, retries, delay) is called.
DirectCall ==
    /\ call = NoCall
    /\ \E retries \in RetriesArgs, delay \in Delays :
          call' = StartCall(retries, delay)
    /\ UNCHANGED <<appVars, callLog>>

\* The transport settles the outstanding fetch() of the call.
CallFetchSettles ==
    /\ call.pc = "fetch"
    /\ \E r \in FetchOutcomes :
          /\ call' = OnFetchSettled(call, r)
          /\ callLog' = IF FetchError(call.i, r) # NoError
                        THEN Append(callLog, Failed(FetchError(call.i, r)))
                        ELSE callLog
    /\ UNCHANGED appVars

\* The body of the response has been read and parsed, or could not be.
CallJsonSettles ==
    /\ call.pc = "json"
    /\ \E r \in JsonOutcomes :
          /\ call' = OnJsonSettled(call, r)
          /\ callLog' = IF JsonError(call.i, r) # NoError
                        THEN Append(callLog, Failed(JsonError(call.i, r)))
                        ELSE Append(callLog, Parsed(r.body))
    /\ UNCHANGED appVars

\* The retry timer of the call fires.
CallTimerFires ==
    /\ call.pc = "sleep"
    /\ call' = OnTimer(call)
    /\ UNCHANGED <<appVars, callLog>>

NextRetry ==
    \/ DirectCall
    \/ CallFetchSettles
    \/ CallJsonSettles
    \/ CallTimerFires

SpecRetry == InitRetry /\ [][NextRetry]_vars

-----------------------------------------------------------------------------
(* Claims *)

\* The invocation that returned in the last step.
Returned == lastReturn.k # 0

\* A body with no results field or with zero records.
NoRecords(body) ==
    body.kind = "object" /\ ("results" \notin DOMAIN body \/ body.results = <<>>)

\* A body with at least one record.
HasRecords(body) ==
    body.kind = "object" /\ "results" \in DOMAIN body /\ body.results # <<>>

\* C1: movieList and errorMessage are never both non-empty, whatever the
\* sequence of query changes and however the invocations in flight interleave.
C1_DataErrorExclusive ==
    ~(movieList # <<>> /\ errorMessage # "")

\* C2: without a credential every invocation returns in the step that starts
\* it, with the configuration-missing message set and isLoading false, and no
\* invocation ever requests a page or calls fetchWithRetry.
C2_NoKeyNoRequest ==
    ~apiKey =>
        /\ \A k \in Invs :
              /\ inv[k].st # "running"
              /\ inv[k].requested = {}
              /\ inv[k].call = NoCall
              /\ inv[k].st = "done" => inv[k].outcome = "ConfigurationMissing"
        /\ nInv > 0 =>
              /\ lastReturn.k = nInv
              /\ lastReturn.outcome = "ConfigurationMissing"
              /\ errorMessage = MsgMissing
              /\ isLoading = FALSE

\* C2 witness: without a credential, a second invocation, for a non-empty
\* query, has returned.
C2_Witness ==
    /\ ~apiKey
    /\ nInv >= 2
    /\ searchTerm # ""
    /\ inv[nInv].st = "done"

\* C3: an invocation whose page 1 comes back with zero records (or without a
\* results field) returns NoResults: the search message for a non-empty
\* query and the browse message for the empty one, an empty movieList, and
\* page 1 the only page it ever requested.
C3_EmptyFirstPage ==
    /\ (Returned /\ Len(lastReturn.got) >= 1 /\ NoRecords(lastReturn.got[1])) =>
          /\ lastReturn.outcome = "NoResults"
          /\ errorMessage = (IF lastReturn.query # "" THEN MsgNoSearch ELSE MsgNoBrowse)
          /\ movieList = <<>>
          /\ lastReturn.requested = {1}
          /\ inv[lastReturn.k].st = "done"
    /\ \A k \in Invs :
          (inv[k].st = "done" /\ inv[k].outcome = "NoResults") => inv[k].requested = {1}

\* C3 witness: the query "batman" got zero records on page 1 and returned.
C3_Witness ==
    /\ Returned
    /\ lastReturn.query = "batman"
    /\ lastReturn.got = << [kind |-> "object", results |-> <<>>] >>
    /\ errorMessage = MsgNoSearch

\* C4: the pages an invocation requests are a prefix of 1..2 for the empty
\* query and of 1..1 for a non-empty one; page 3 is never requested.
C4_PagePrefix ==
    \A k \in Invs :
        /\ inv[k].requested \in {{}, {1}, {1, 2}}
        /\ inv[k].query # "" => inv[k].requested \subseteq {1}

\* C4 witness: a browse invocation has requested pages 1 and 2, and a search
\* invocation has succeeded having requested page 1 only.
C4_Witness ==
    /\ \E k \in Invs : inv[k].query = "" /\ inv[k].requested = {1, 2}
    /\ \E k \in Invs :
          /\ inv[k].query # ""
          /\ inv[k].st = "done"
          /\ inv[k].outcome = "Success"
          /\ inv[k].requested = {1}

\* C5: a browse invocation whose page 1 has records and whose page 2 has
\* none returns a success: movieList is page 1's records, transformed, in
\* their order, and errorMessage is empty.
C5_SecondPageEmpty ==
    ( /\ Returned
      /\ lastReturn.query = ""
      /\ Len(lastReturn.got) = 2
      /\ HasRecords(lastReturn.got[1])
      /\ NoRecords(lastReturn.got[2]) ) =>
        /\ lastReturn.outcome = "Success"
        /\ movieList = TransformAll(lastReturn.got[1].results)
        /\ errorMessage = ""

\* C6: an invocation one of whose page fetches failed on every attempt of
\* its retry budget returns with an error message set and an empty
\* movieList, whatever the pages before it had returned.
C6_FailureDiscardsPartial ==
    ( /\ Returned
      /\ lastReturn.caught # NoError
      /\ lastReturn.caught.attempt = DefaultRetries - 1 ) =>
        /\ lastReturn.outcome = "Failure"
        /\ errorMessage # ""
        /\ movieList = <<>>

\* C6 witness: page 1 of a browse invocation returned records and page 2
\* failed on its third attempt.
C6_Witness ==
    /\ Returned
    /\ lastReturn.query = ""
    /\ Len(lastReturn.got) = 1
    /\ HasRecords(lastReturn.got[1])
    /\ lastReturn.requested = {1, 2}
    /\ lastReturn.caught # NoError
    /\ lastReturn.caught.attempt = DefaultRetries - 1
    /\ movieList = <<>>

\* C7 as stated: the message shown after a caught failure follows from the
\* failure's text: "401" in it gives the invalid-credential message, "429"
\* in it gives the rate-limit message, and any other text the generic one.
C7_ClassifiedByText ==
    (Returned /\ lastReturn.caught # NoError) =>
        LET m == lastReturn.caught.message IN
        /\ Includes(m, "401") => errorMessage = MsgUnauthorized
        /\ Includes(m, "429") => errorMessage = MsgRateLimited
        /\ (~Includes(m, "401") /\ ~Includes(m, "429")) => errorMessage = MsgGeneric

\* C7 amended: "401" in the text gives the invalid-credential message; "429"
\* in a text without "401" gives the rate-limit message; any other text the
\* generic one.  A retry exhausted on HTTP status 401 gives the
\* invalid-credential message, and on status 429 the rate-limit message.
C7_ClassifiedByTextInOrder ==
    (Returned /\ lastReturn.caught # NoError) =>
        LET m == lastReturn.caught.message IN
        /\ Includes(m, "401") => errorMessage = MsgUnauthorized
        /\ (Includes(m, "429") /\ ~Includes(m, "401")) => errorMessage = MsgRateLimited
        /\ (~Includes(m, "401") /\ ~Includes(m, "429")) => errorMessage = MsgGeneric
        /\ m = "HTTP error! status: 401" => errorMessage = MsgUnauthorized
        /\ m = "HTTP error! status: 429" => errorMessage = MsgRateLimited

\* C7 witness: the caught failure's text holds both "429" and "401", and the
\* invalid-credential message is shown.
C7_Witness ==
    /\ Returned
    /\ lastReturn.caught # NoError
    /\ Includes(lastReturn.caught.message, "401")
    /\ Includes(lastReturn.caught.message, "429")
    /\ errorMessage = MsgUnauthorized

\* The attempts of the direct call that have failed so far.
FailedAttempts == { j \in 1..Len(callLog) : ~callLog[j].ok }

\* C8: one call of fetchWithRetry issues at most `retries` attempts, and none
\* after the first attempt that succeeds: the call has then returned that
\* attempt's parsed body.
C8_AttemptsBounded ==
    call # NoCall =>
        /\ call.attempts <= call.retries
        /\ Len(callLog) <= call.attempts
        /\ \A j \in 1..Len(callLog) :
              callLog[j].ok =>
                  /\ j = Len(callLog)
                  /\ call.attempts = j
                  /\ call.pc = "returned"
                  /\ call.result = callLog[j].body

\* C8 witness: a call with retries = 3 returned on its second attempt.
C8_Witness ==
    /\ call # NoCall
    /\ call.retries = 3
    /\ call.pc = "returned"
    /\ call.attempts = 2
    /\ Len(callLog) = 2
    /\ callLog[2].ok

\* C9: a delay of `delay` ms is waited after each failed attempt but the last
\* permitted one, and never after a success: a call that returns on attempt
\* k+1 has waited exactly k delays, and a call all of whose `retries` attempts
\* failed has waited exactly retries-1 delays.
C9_DelaysBetweenAttempts ==
    call # NoCall =>
        /\ call.pc = "returned" =>
              /\ call.delays = Len(callLog) - 1
              /\ call.waited = (Len(callLog) - 1) * call.delay
        /\ (Cardinality(FailedAttempts) = call.retries) =>
              /\ call.delays = call.retries - 1
              /\ call.waited = (call.retries - 1) * call.delay
        /\ call.pc = "sleep" =>
              /\ call.delays = Cardinality(FailedAttempts)
              /\ call.waited = (call.delays - 1) * call.delay
              /\ Cardinality(FailedAttempts) < call.retries
        /\ call.pc \in {"fetch", "json"} =>
              /\ call.delays = Cardinality(FailedAttempts)
              /\ call.waited = call.delays * call.delay

\* C9 witness: with retries = 3 the call failed, failed and succeeded, and
\* has waited two delays.
C9_Witness ==
    /\ call # NoCall
    /\ call.retries = 3
    /\ call.pc = "returned"
    /\ Len(callLog) = 3
    /\ ~callLog[1].ok /\ ~callLog[2].ok /\ callLog[3].ok
    /\ call.delays = 2
    /\ call.waited = 2 * call.delay

\* C10: a call all of whose `retries` attempts failed has raised to its
\* caller the failure of the last attempt, as that attempt raised it, and has
\* returned no value.
C10_LastFailurePropagates ==
    (call # NoCall /\ Cardinality(FailedAttempts) = call.retries) =>
        /\ call.pc = "thrown"
        /\ call.error = callLog[call.retries].error
        /\ call.error.attempt = call.retries - 1
        /\ call.result = UndefinedValue

\* C10 witness: three attempts failed, each with another failure, and the
\* call has raised the third.
C10_Witness ==
    /\ call # NoCall
    /\ call.retries = 3
    /\ call.pc = "thrown"
    /\ Len(callLog) = 3
    /\ callLog[1].error.message # callLog[3].error.message
    /\ callLog[2].error.message # callLog[3].error.message
    /\ call.error.message = callLog[3].error.message

\* The raw records an invocation received, page after page.
RECURSIVE RawRecords(_)
RawRecords(got) ==
    IF got = <<>> THEN <<>>
    ELSE (IF HasRecords(Head(got)) THEN Head(got).results ELSE <<>>)
            \o RawRecords(Tail(got))

\* C11: an invocation every requested page of which returned records commits
\* the pages' transformed records, page 1's before page 2's, each page in
\* the provider's order, none dropped and none duplicated.
C11_PagesConcatenated ==
    ( /\ Returned
      /\ lastReturn.requested # {}
      /\ Len(lastReturn.got) = Cardinality(lastReturn.requested)
      /\ \A p \in 1..Len(lastReturn.got) : HasRecords(lastReturn.got[p]) ) =>
        /\ lastReturn.outcome = "Success"
        /\ Len(movieList) = Len(RawRecords(lastReturn.got))
        /\ \A j \in 1..Len(movieList) :
              /\ movieList[j].id = RawRecords(lastReturn.got)[j].id
              /\ movieList[j].title = RawRecords(lastReturn.got)[j].title
        /\ movieList = TransformAll(RawRecords(lastReturn.got))

\* C11 witness: a browse invocation got two records on page 1 and two on
\* page 2, one of them on both pages, and committed the four in that order.
C11_Witness ==
    /\ Returned
    /\ lastReturn.query = ""
    /\ Len(lastReturn.got) = 2
    /\ HasRecords(lastReturn.got[1]) /\ Len(lastReturn.got[1].results) = 2
    /\ HasRecords(lastReturn.got[2]) /\ Len(lastReturn.got[2].results) = 2
    /\ lastReturn.got[1] # lastReturn.got[2]
    /\ Len(movieList) = 4
    /\ movieList[1].id = lastReturn.got[1].results[1].id
    /\ movieList[3].id = lastReturn.got[2].results[1].id

\* The poster a raw record is to get: the image prefix before a present,
\* non-empty poster_path, the placeholder otherwise.
ExpectedPoster(raw) ==
    IF "poster_path" \in DOMAIN raw /\ raw.poster_path # ""
    THEN "https://image.tmdb.org/t/p/w500" \o raw.poster_path
    ELSE "./No-Poster.png"

\* C13: every committed record carries the poster its raw record is to get
\* (whether poster_path was present, empty or absent), and every other field
\* of the raw record unchanged, with no field added.
C13_PosterMapping ==
    (Returned /\ lastReturn.outcome = "Success") =>
        /\ Len(movieList) = Len(RawRecords(lastReturn.got))
        /\ \A j \in 1..Len(movieList) :
              LET raw == RawRecords(lastReturn.got)[j]
                  out == movieList[j]
              IN  /\ DOMAIN out = DOMAIN raw \cup {"poster_path"}
                  /\ out.poster_path = ExpectedPoster(raw)
                  /\ \A fld \in DOMAIN raw \ {"poster_path"} : out[fld] = raw[fld]

\* C13 witness: the committed list holds a record whose poster_path was
\* present, one whose poster_path was empty and one that had none.
C13_Witness ==
    /\ Returned
    /\ lastReturn.outcome = "Success"
    /\ \E a, b, c \in 1..Len(movieList) :
          LET raw == RawRecords(lastReturn.got) IN
          /\ "poster_path" \in DOMAIN raw[a] /\ raw[a].poster_path = "/abc.jpg"
          /\ movieList[a].poster_path = "https://image.tmdb.org/t/p/w500/abc.jpg"
          /\ "poster_path" \in DOMAIN raw[b] /\ raw[b].poster_path = ""
          /\ movieList[b].poster_path = "./No-Poster.png"
          /\ "poster_path" \notin DOMAIN raw[c]
          /\ movieList[c].poster_path = "./No-Poster.png"

\* C12: when an invocation that no other invocation overlapped returns,
\* exactly one of the two is populated: a non-empty movieList with an empty
\* errorMessage (success), or one of the error messages with an empty
\* movieList (ConfigurationMissing, NoResults, Unauthorized, RateLimited,
\* TransientFailure).
C12_ExactlyOneOutcome ==
    (Returned /\ ~lastReturn.overlapped) =>
        \/ /\ lastReturn.outcome = "Success"
           /\ movieList # <<>>
           /\ errorMessage = ""
        \/ /\ lastReturn.outcome = "ConfigurationMissing"
           /\ errorMessage = MsgMissing
           /\ movieList = <<>>
        \/ /\ lastReturn.outcome = "NoResults"
           /\ errorMessage \in {MsgNoSearch, MsgNoBrowse}
           /\ movieList = <<>>
        \/ /\ lastReturn.outcome = "Failure"
           /\ errorMessage \in {MsgUnauthorized, MsgRateLimited, MsgGeneric}
           /\ movieList = <<>>

\* C12 witness: the first invocation succeeded and returned; the second one,
\* started after that, returned NoResults with the list emptied.
C12_Witness ==
    /\ Returned
    /\ lastReturn.k = 2
    /\ ~lastReturn.overlapped
    /\ lastReturn.outcome = "NoResults"
    /\ inv[1].st = "done"
    /\ inv[1].outcome = "Success"
    /\ movieList = <<>>

\* C14: an invocation in flight awaits exactly one fetchWithRetry call, the
\* one of its current page, with at most one HTTP attempt outstanding; the
\* pages before the current one have all returned records, so page 2 is
\* requested only after page 1's call has returned a non-empty page.
C14_PagesSequential ==
    /\ \A k \in Invs :
          inv[k].st = "running" =>
              /\ inv[k].call.pc \in {"fetch", "json", "sleep"}
              /\ inv[k].call.attempts = inv[k].call.i + 1
              /\ inv[k].page = Len(inv[k].got) + 1
              /\ inv[k].requested = 1..inv[k].page
              /\ \A p \in 1..Len(inv[k].got) : HasRecords(inv[k].got[p])
    /\ (Returned /\ 2 \in lastReturn.requested) =>
          /\ Len(lastReturn.got) >= 1
          /\ HasRecords(lastReturn.got[1])

\* C14 witness: a browse invocation is retrying page 2 after page 1 returned
\* records.
C14_Witness ==
    \E k \in Invs :
        /\ inv[k].st = "running"
        /\ inv[k].page = 2
        /\ inv[k].call.pc = "fetch"
        /\ inv[k].call.i = 1
        /\ Len(inv[k].got) = 1
        /\ HasRecords(inv[k].got[1])

\* What an invocation that returned has committed to movieList.
Committed(ret) ==
    IF ret.outcome = "Success" THEN TransformAll(RawRecords(ret.got)) ELSE <<>>

\* C15: a change of the search term cancels nothing: an invocation in flight
\* stays in flight, its call untouched, until it returns itself, and at its
\* return it commits its own outcome to movieList / errorMessage whatever
\* the search term has become.
C15_StaleCommit ==
    [][ \A k \in Invs :
          inv[k].st = "running" =>
              \/ /\ inv'[k].st = "running"
                 /\ (searchTerm' # searchTerm => inv'[k].call = inv[k].call)
              \/ /\ inv'[k].st = "done"
                 /\ searchTerm' = searchTerm
                 /\ lastReturn'.k = k
                 /\ lastReturn'.query = inv[k].query
                 /\ movieList' = Committed(lastReturn')
                 /\ (lastReturn'.outcome # "Success" => errorMessage' # "")
      ]_vars

\* C15 witness: every invocation has returned, the newer query's one with a
\* success; the search term is the newer query, and movieList holds the
\* records of the older, empty query, which returned last.
C15_Witness ==
    /\ nInv >= 2
    /\ \A k \in Invs : inv[k].st # "running"
    /\ searchTerm = "batman"
    /\ Returned
    /\ lastReturn.k < nInv
    /\ lastReturn.query = ""
    /\ lastReturn.outcome = "Success"
    /\ inv[nInv].query = searchTerm
    /\ inv[nInv].outcome = "Success"
    /\ movieList # <<>>
    /\ movieList = Committed(lastReturn)
    /\ errorMessage = ""

\* The messages of the transport failures.
TransportMessages == {MsgUnauthorized, MsgRateLimited, MsgGeneric}

\* In this step an attempt of invocation k failed and the timer was armed.
FailedAndRetries(k) ==
    /\ inv[k].st = "running"
    /\ inv[k].call.pc \in {"fetch", "json"}
    /\ inv'[k].st = "running"
    /\ inv'[k].call.pc = "sleep"

\* In this step a transport-failure message was written to errorMessage.
FailureWritten ==
    \/ errorMessage' \in TransportMessages /\ errorMessage' # errorMessage
    \/ lastReturn'.k # 0 /\ lastReturn'.outcome = "Failure"

\* C16 as stated: a failed attempt that is not the last permitted one leaves
\* errorMessage, movieList and isLoading unchanged, and a transport-failure
\* message is written only when an attempt budget has been exhausted.
C16_RetriesSilent ==
    [][ /\ \A k \in Invs :
              FailedAndRetries(k) => UNCHANGED <<errorMessage, movieList, isLoading>>
        /\ FailureWritten =>
              /\ lastReturn'.k # 0
              /\ lastReturn'.outcome = "Failure"
              /\ lastReturn'.caught.attempt = DefaultRetries - 1
      ]_vars

\* C16 amended: a failed attempt that is not the last permitted one leaves
\* errorMessage, movieList and isLoading unchanged, and a transport-failure
\* message is written only by the catch clause of fetchMovies: when an
\* attempt budget has been exhausted, or when fetchMovies itself failed
\* reading the results of a returned body that is not an object.
C16_RetriesSilentOrBadBody ==
    [][ /\ \A k \in Invs :
              FailedAndRetries(k) => UNCHANGED <<errorMessage, movieList, isLoading>>
        /\ FailureWritten =>
              /\ lastReturn'.k # 0
              /\ lastReturn'.outcome = "Failure"
              /\ \/ lastReturn'.caught.attempt = DefaultRetries - 1
                 \/ /\ lastReturn'.caught.attempt = -1
                    /\ lastReturn'.got # <<>>
                    /\ lastReturn'.got[Len(lastReturn'.got)].kind # "object"
      ]_vars

\* C16 witness: an invocation failed twice on a page and is at its third
\* attempt with nothing shown yet, and isLoading still true.
C16_Witness ==
    \E k \in Invs :
        /\ nInv = 1
        /\ inv[k].st = "running"
        /\ inv[k].call.i = 2
        /\ inv[k].call.delays = 2
        /\ errorMessage = ""
        /\ movieList = <<>>
        /\ isLoading = TRUE

\* C17: with a credential, isLoading is true in every state in which an
\* invocation has started and not yet returned.
C17_LoadingWhileInFlight ==
    (apiKey /\ InFlight # {}) => isLoading = TRUE

\* C19: every return of fetchMovies leaves isLoading false, and isLoading is
\* false in every state in which no invocation is in flight.
C19_IdleNotLoading ==
    /\ Returned => isLoading = FALSE
    /\ InFlight = {} => isLoading = FALSE

\* C19 witness: with a credential, the only invocation took the early return
\* of the empty first page, and isLoading is false.
C19_Witness ==
    /\ apiKey
    /\ nInv = 1
    /\ InFlight = {}
    /\ Returned
    /\ lastReturn.outcome = "NoResults"
    /\ isLoading = FALSE

\* In this step invocation k started a fetchWithRetry call.
StartsCall(k) ==
    /\ inv'[k].st = "running"
    /\ inv'[k].call.pc = "fetch"
    /\ inv'[k].call.i = 0
    /\ ~(inv[k].st = "running" /\ inv[k].call.pc = "fetch")

\* C18: when every attempt settles and every delay elapses, every invocation
\* that starts returns; it starts one fetchWithRetry call per requested page,
\* each of at most 3 attempts, for at most 1 page in search mode and 2 in
\* browse mode (so at most 3 and 6 attempts).
C18_Terminates ==
    /\ \A k \in Invs : (inv[k].st = "running") ~> (inv[k].st = "done")
    /\ [](\A k \in Invs :
            inv[k].st = "running" =>
                /\ inv[k].call.attempts <= 3
                /\ 3 * Cardinality(inv[k].requested)
                      <= (IF inv[k].query # "" THEN 3 ELSE 6))
    /\ [][ \A k \in Invs :
             StartsCall(k) =>
                 /\ inv'[k].page \notin (IF inv[k].st = "running"
                                         THEN inv[k].requested ELSE {})
                 /\ inv'[k].requested =
                       (IF inv[k].st = "running" THEN inv[k].requested ELSE {})
                          \cup {inv'[k].page}
         ]_vars

\* C18 witness: a browse invocation has returned after its sixth attempt,
\* the third of page 2, failed.
C18_Witness ==
    /\ Returned
    /\ lastReturn.query = ""
    /\ lastReturn.requested = {1, 2}
    /\ lastReturn.outcome = "Failure"
    /\ lastReturn.caught.attempt = 2
    /\ inv[lastReturn.k].st = "done"

====
